---- MODULE Spec2Model ----
(***************************************************************************)
(* Model of oracle::pricing_record (src/oracle/pricing_record.cpp) and of  *)
(* its blob serializer (src/serialization/pricing_record.h).               *)
(*                                                                         *)
(* A uint64_t is kept as its eight bytes, least significant first, so that *)
(* 64-bit wrap-around and the object's byte image are both exact.  The     *)
(* signature buffer keeps its 64 bytes.  OpenSSL and the configuration are *)
(* outside the repository: their answers are inputs of the actions.        *)
(***************************************************************************)
EXTENDS Integers, Sequences, FiniteSets, TLC

\* ------------------------------------------------------------------ bounds
\* Number of threads that call verifySignature concurrently (SpecConc).
NumThreads == 2
\* Number of decodes (_load, reading do_serialize) run on the record instance
\* before it is assigned afresh (SpecCodec).
MaxDecodes == 1

\* ------------------------------------------------------- program constants
\* sizeof(signature): unsigned char signature[64]
SIG_LEN == 64
\* sizeof(uint64_t)
U64_BYTES == 8
\* cryptonote_config.h, which is not among the sources at hand: the value is
\* the upstream one; valid() is run just below, at and just above it
HF_VERSION_SLIPPAGE_YIELD == 255
\* cryptonote_config.h, which is not among the sources at hand: the upstream
\* value, in seconds; the timestamps are taken on both sides of the window
PRICING_RECORD_VALID_TIME_DIFF_FROM_BLOCK == 120

\* ------------------------------------------------------------ uint64_t
RECURSIVE ByteOf(_, _)
\* byte i (1 = least significant) of the natural number n
ByteOf(n, i) == IF i = 1 THEN n % 256 ELSE ByteOf(n \div 256, i - 1)

\* the uint64_t holding the natural number n (n < 2^31 in the model)
U64(n) == [i \in 1..U64_BYTES |-> ByteOf(n, i)]

U64Zero == U64(0)

\* UINT64_MAX
U64Max == [i \in 1..U64_BYTES |-> 255]

\* UINT64_MAX - k, for k < 256
U64MaxMinus(k) == [i \in 1..U64_BYTES |-> IF i = 1 THEN 255 - k ELSE 255]

RECURSIVE AddFrom(_, _, _, _)
\* bytes i.. of a + b with carry c in, followed by the carry out
AddFrom(a, b, i, c) ==
  IF i > U64_BYTES THEN <<c>>
  ELSE LET s == a[i] + b[i] + c
       IN  <<s % 256>> \o AddFrom(a, b, i + 1, s \div 256)

\* a + b as the machine computes it: nine bytes, the ninth is the carry out
WideAdd(a, b) == AddFrom(a, b, 1, 0)

\* uint64_t addition: the sum modulo 2^64 (the carry out is dropped)
U64Add(a, b) == SubSeq(WideAdd(a, b), 1, U64_BYTES)

RECURSIVE LtFrom(_, _, _)
\* a < b on bytes 1..i, most significant byte first
LtFrom(a, b, i) ==
  IF i = 0 THEN FALSE
  ELSE IF a[i] # b[i] THEN a[i] < b[i]
  ELSE LtFrom(a, b, i - 1)

U64Lt(a, b) == LtFrom(a, b, U64_BYTES)
U64Le(a, b) == ~U64Lt(b, a)
U64Gt(a, b) == U64Lt(b, a)

\* ------------------------------------------------------- pricing_record
SigIdx == 1..SIG_LEN

\* pricing_record::pricing_record(): all fields zero, signature memset to 0
pricing_record_default ==
  [pr_version |-> U64Zero, spot |-> U64Zero, moving_average |-> U64Zero,
   timestamp |-> U64Zero, signature |-> [i \in SigIdx |-> 0]]

\* memcmp(a, b, sizeof(signature)) == 0
memcmp_eq(a, b) == \A i \in SigIdx : a[i] = b[i]

\* a plausible slip: compares the integer fields and forgets the signature
equal_NoSignature(a, b) ==
  /\ a.pr_version = b.pr_version
  /\ a.spot = b.spot
  /\ a.moving_average = b.moving_average
  /\ a.timestamp = b.timestamp

\* pricing_record::equal
equal(a, b) ==
  /\ a.pr_version = b.pr_version
  /\ a.spot = b.spot
  /\ a.moving_average = b.moving_average
  /\ a.timestamp = b.timestamp
  /\ memcmp_eq(a.signature, b.signature)

\* pricing_record::empty
empty(r) == equal(r, pricing_record_default)

\* a plausible slip: && in place of ||
has_missing_rates_And(r) == (r.spot = U64Zero) /\ (r.moving_average = U64Zero)

\* pricing_record::has_missing_rates
has_missing_rates(r) == (r.spot = U64Zero) \/ (r.moving_average = U64Zero)

\* ---------------------------------------------------------------- logging
\* one LOG_ERROR line: the literal text and the values streamed into it
LogLine(text, args) == [msg |-> text, args |-> args]

MSG_MISSING_RATES == LogLine("Pricing record has missing rates.", <<>>)
MSG_BAD_SIGNATURE == LogLine("Invalid pricing record signature.", <<>>)
MSG_FUTURE == LogLine("Pricing record timestamp is too far in the future.", <<>>)
MSG_TOO_OLD == LogLine("Pricing record timestamp is too old.", <<>>)
MSG_TIMESTAMPS(ts, bl) ==
  LogLine("Pricing record timestamp: , block timestamp: ", <<ts, bl>>)

\* ------------------------------------------------- valid(): the decisions
\* a plausible slip: the rate check placed before the emptiness escape
valid_pre_RatesFirst(r, hf_version) ==
  IF hf_version < HF_VERSION_SLIPPAGE_YIELD /\ ~empty(r)
  THEN [go |-> "return", result |-> FALSE, log |-> <<>>,
        rules |-> <<"activation">>]
  ELSE IF has_missing_rates(r)
  THEN [go |-> "return", result |-> FALSE, log |-> <<MSG_MISSING_RATES>>,
        rules |-> <<"activation", "missing_rates">>]
  ELSE IF empty(r)
  THEN [go |-> "return", result |-> TRUE, log |-> <<>>,
        rules |-> <<"activation", "missing_rates", "empty">>]
  ELSE [go |-> "verify", result |-> FALSE, log |-> <<>>,
        rules |-> <<"activation", "missing_rates", "empty", "signature">>]

\* valid(), up to the call of verifySignature: what it returns, what it logs
\* and which rules it has evaluated; go = "verify" when it goes on to the
\* key lookup and the signature check
valid_pre(r, hf_version) ==
  IF hf_version < HF_VERSION_SLIPPAGE_YIELD /\ ~empty(r)
  THEN [go |-> "return", result |-> FALSE, log |-> <<>>,
        rules |-> <<"activation">>]
  ELSE IF empty(r)
  THEN [go |-> "return", result |-> TRUE, log |-> <<>>,
        rules |-> <<"activation", "empty">>]
  ELSE IF has_missing_rates(r)
  THEN [go |-> "return", result |-> FALSE, log |-> <<MSG_MISSING_RATES>>,
        rules |-> <<"activation", "empty", "missing_rates">>]
  ELSE [go |-> "verify", result |-> FALSE, log |-> <<>>,
        rules |-> <<"activation", "empty", "missing_rates", "signature">>]

\* valid(), after verifySignature has returned sig_ok
valid_post(r, bl_timestamp, last_bl_timestamp, sig_ok) ==
  IF ~sig_ok
  THEN [result |-> FALSE, log |-> <<MSG_BAD_SIGNATURE>>, rules |-> <<>>]
  ELSE IF U64Gt(r.timestamp,
                U64Add(bl_timestamp, U64(PRICING_RECORD_VALID_TIME_DIFF_FROM_BLOCK)))
  THEN [result |-> FALSE, log |-> <<MSG_FUTURE>>, rules |-> <<"future_skew">>]
  ELSE IF U64Le(r.timestamp, last_bl_timestamp)
  THEN [result |-> FALSE,
        log |-> <<MSG_TIMESTAMPS(r.timestamp, bl_timestamp), MSG_TOO_OLD>>,
        rules |-> <<"future_skew", "monotonicity">>]
  ELSE [result |-> TRUE, log |-> <<>>,
        rules |-> <<"future_skew", "monotonicity">>]

\* ------------------------------------------------------------- the state
Threads == 1..NumThreads

\* what get_config(nettype).ORACLE_PUBLIC_KEY can hold, seen from
\* verifySignature: an empty string, text that is no PEM public key, a PEM key
KeyKinds == {"empty", "garbage", "pem"}

NetTypes == {"MAINNET", "TESTNET"}

\* the null pointer
NULL == <<0, 0>>

VARIABLES
  config,   \* nettype -> kind of the configured ORACLE_PUBLIC_KEY
  pc,       \* thread -> where it stands
  call,     \* thread -> the call it runs and its arguments
  result,   \* thread -> "true", "false", "exception", or "none" while running
  log,      \* thread -> the LOG_ERROR lines of the call
  rules,    \* thread -> the rules valid() has evaluated, in order
  ext,      \* thread -> the external functions the call has invoked, in order
  bio,      \* thread -> verifySignature's local BIO*
  pubkey,   \* thread -> verifySignature's local EVP_PKEY*
  ctx,      \* thread -> verifySignature's local EVP_MD_CTX*
  ret,      \* thread -> verifySignature's local int ret
  vsret,    \* thread -> what verifySignature returned to valid()
  heap,     \* the live OpenSSL objects: [id, kind]
  acq,      \* thread -> the objects the call has acquired, in order
  rel,      \* thread -> the objects the call has released, in order
  fault,    \* thread -> uses and releases of an object that was not live
  pr,       \* the record instance the codecs read and write
  oob,      \* bytes _load wrote past signature[63]: <<index, value>> pairs
  ndec,     \* decodes (_load, reading do_serialize) run on the instance
            \* since it was last assigned
  last      \* the codec operation that ran last: its input, the instance
            \* before it, its result, and the archive after a read

conc == <<config, pc, call, result, log, rules, ext, bio, pubkey, ctx, ret,
          vsret, heap, acq, rel, fault>>
codec == <<pr, oob, ndec, last>>
vars == <<conc, codec>>

NoCall == [kind |-> "none"]

\* ------------------------------------------------------ the heap (OpenSSL)
\* the object the next allocation of thread t's call returns: objects are
\* named by the thread and the allocation's rank within the call
NewObj(t) == <<t, Len(acq[t]) + 1>>

\* the heap with a new live object p of the given kind
Alloc(h, p, kind) == h \cup {[id |-> p, kind |-> kind]}

\* the heap after free(p); free(NULL) does nothing
Freed(h, p) == {o \in h : o.id # p}

\* the faults of thread t after it touches p expecting a live `kind`
Touch(t, h, p, kind, what) ==
  IF p # NULL /\ [id |-> p, kind |-> kind] \notin h
  THEN fault[t] \cup {what} ELSE fault[t]

\* a bool as the caller sees it
Verdict(b) == IF b THEN "true" ELSE "false"

\* --------------------------------------------- leaving verifySignature
\* return v: back into valid(), or out to the caller
ReturnFromVerify(t, v) ==
  IF call[t].kind = "valid"
  THEN /\ pc' = [pc EXCEPT ![t] = "v_post"]
       /\ vsret' = [vsret EXCEPT ![t] = v]
       /\ UNCHANGED result
  ELSE /\ pc' = [pc EXCEPT ![t] = "done"]
       /\ result' = [result EXCEPT ![t] = Verdict(v)]
       /\ UNCHANGED vsret

\* CHECK_AND_ASSERT_THROW_MES fails: the exception leaves verifySignature and,
\* valid() having no handler, valid() as well
Throw(t) ==
  /\ pc' = [pc EXCEPT ![t] = "done"]
  /\ result' = [result EXCEPT ![t] = "exception"]
  /\ UNCHANGED vsret

\* ------------------------------------------------------------ the inputs
SigZero == [i \in SigIdx |-> 0]
\* bytes below 0x10, bytes from 0x80 up, and everything between
SigA == [i \in SigIdx |-> (i * 37 + 200) % 256]
\* only the last byte set
SigLast == [i \in SigIdx |-> IF i = SIG_LEN THEN 1 ELSE 0]
\* every byte 0xff
SigFF == [i \in SigIdx |-> 255]

Rec(v, s, m, ts, sig) ==
  [pr_version |-> v, spot |-> s, moving_average |-> m, timestamp |-> ts,
   signature |-> sig]

RecordTimestamps == {U64Zero, U64(1000), U64(1130), U64(1131), U64Max}
\* UINT64_MAX - 120 + 120 still fits; UINT64_MAX - 119 + 120 wraps to 0
BlockTimestamps == {U64(1010), U64MaxMinus(120), U64MaxMinus(119), U64Max}
LastBlockTimestamps == {U64Zero, U64(999), U64(1000), U64Max}
HfVersions == {HF_VERSION_SLIPPAGE_YIELD - 1, HF_VERSION_SLIPPAGE_YIELD,
               HF_VERSION_SLIPPAGE_YIELD + 1}

\* the records handed to valid()
PolicyRecords ==
  {Rec(v, s, m, ts, sig) :
     v \in {U64Zero, U64(1)}, s \in {U64Zero, U64(100)},
     m \in {U64Zero, U64(95)}, ts \in RecordTimestamps,
     sig \in {SigZero, SigA}}
  \cup {Rec(U64Zero, U64Zero, U64Zero, U64Zero, SigLast)}

Configs ==
  { [n \in NetTypes |-> "pem"],
    [n \in NetTypes |-> IF n = "MAINNET" THEN "pem" ELSE "garbage"],
    [n \in NetTypes |-> IF n = "MAINNET" THEN "empty" ELSE "pem"] }

\* ------------------------------------------------------------------- Init
Init ==
  /\ config \in Configs
  /\ pc = [t \in Threads |-> "idle"]
  /\ call = [t \in Threads |-> NoCall]
  /\ result = [t \in Threads |-> "none"]
  /\ log = [t \in Threads |-> <<>>]
  /\ rules = [t \in Threads |-> <<>>]
  /\ ext = [t \in Threads |-> <<>>]
  /\ bio = [t \in Threads |-> NULL]
  /\ pubkey = [t \in Threads |-> NULL]
  /\ ctx = [t \in Threads |-> NULL]
  /\ ret = [t \in Threads |-> 0]
  /\ vsret = [t \in Threads |-> FALSE]
  /\ heap = {}
  /\ acq = [t \in Threads |-> <<>>]
  /\ rel = [t \in Threads |-> <<>>]
  /\ fault = [t \in Threads |-> {}]
  /\ pr = pricing_record_default
  /\ oob = {}
  /\ ndec = 0
  /\ last = [op |-> "none"]

\* ------------------------------------------------------- valid(): actions
\* valid(nettype, hf_version, bl_timestamp, last_bl_timestamp) on record r,
\* lines 199-214: the activation rule, the emptiness escape, the rate check,
\* then the key lookup and the entry into verifySignature
CallValid(t, r, nettype, hf_version, bl_timestamp, last_bl_timestamp) ==
  /\ pc[t] = "idle"
  /\ LET d == valid_pre(r, hf_version)
         verify == d.go = "verify"
     IN  /\ call' = [call EXCEPT ![t] =
                       [kind |-> "valid", rec |-> r, nettype |-> nettype,
                        hf_version |-> hf_version, bl_timestamp |-> bl_timestamp,
                        last_bl_timestamp |-> last_bl_timestamp,
                        key |-> IF verify THEN config[nettype] ELSE "unresolved"]]
         /\ rules' = [rules EXCEPT ![t] = d.rules]
         /\ log' = [log EXCEPT ![t] = d.log]
         /\ ext' = [ext EXCEPT ![t] =
                      IF verify THEN <<"get_config", "verifySignature">> ELSE <<>>]
         /\ pc' = [pc EXCEPT ![t] = IF verify THEN "vs_entry" ELSE "done"]
         /\ result' = [result EXCEPT ![t] =
                         IF verify THEN "none" ELSE Verdict(d.result)]
  /\ UNCHANGED <<config, bio, pubkey, ctx, ret, vsret, heap, acq, rel, fault>>
  /\ UNCHANGED codec

\* valid(), lines 214-232, once verifySignature has returned
ValidPost(t) ==
  /\ pc[t] = "v_post"
  /\ LET c == call[t]
         d == valid_post(c.rec, c.bl_timestamp, c.last_bl_timestamp, vsret[t])
     IN  /\ rules' = [rules EXCEPT ![t] = rules[t] \o d.rules]
         /\ log' = [log EXCEPT ![t] = log[t] \o d.log]
         /\ result' = [result EXCEPT ![t] = Verdict(d.result)]
  /\ pc' = [pc EXCEPT ![t] = "done"]
  /\ UNCHANGED <<config, call, ext, bio, pubkey, ctx, ret, vsret, heap, acq,
                 rel, fault>>
  /\ UNCHANGED codec

\* the caller takes the result; the call's locals are gone
Return(t) ==
  /\ pc[t] = "done"
  /\ pc' = [pc EXCEPT ![t] = "idle"]
  /\ call' = [call EXCEPT ![t] = NoCall]
  /\ result' = [result EXCEPT ![t] = "none"]
  /\ log' = [log EXCEPT ![t] = <<>>]
  /\ rules' = [rules EXCEPT ![t] = <<>>]
  /\ ext' = [ext EXCEPT ![t] = <<>>]
  /\ bio' = [bio EXCEPT ![t] = NULL]
  /\ pubkey' = [pubkey EXCEPT ![t] = NULL]
  /\ ctx' = [ctx EXCEPT ![t] = NULL]
  /\ ret' = [ret EXCEPT ![t] = 0]
  /\ vsret' = [vsret EXCEPT ![t] = FALSE]
  /\ acq' = [acq EXCEPT ![t] = <<>>]
  /\ rel' = [rel EXCEPT ![t] = <<>>]
  /\ fault' = [fault EXCEPT ![t] = {}]
  /\ UNCHANGED <<config, heap>>
  /\ UNCHANGED codec

\* ------------------------------------------------ verifySignature: actions
\* a direct call of verifySignature(public_key) on record r
CallVerifySignature(t, r, key) ==
  /\ pc[t] = "idle"
  /\ call' = [call EXCEPT ![t] =
                [kind |-> "verifySignature", rec |-> r, key |-> key]]
  /\ ext' = [ext EXCEPT ![t] = <<"verifySignature">>]
  /\ pc' = [pc EXCEPT ![t] = "vs_entry"]
  /\ UNCHANGED <<config, result, log, rules, bio, pubkey, ctx, ret, vsret,
                 heap, acq, rel, fault>>
  /\ UNCHANGED codec

\* line 137: CHECK_AND_ASSERT_THROW_MES(!public_key.empty(), ...)
VS_CheckKey(t) ==
  /\ pc[t] = "vs_entry"
  /\ IF call[t].key = "empty"
     THEN Throw(t)
     ELSE /\ pc' = [pc EXCEPT ![t] = "vs_bio"]
          /\ UNCHANGED <<result, vsret>>
  /\ UNCHANGED <<config, call, log, rules, ext, bio, pubkey, ctx, ret, heap,
                 acq, rel, fault>>
  /\ UNCHANGED codec

\* lines 141-144: bio = BIO_new_mem_buf(...); if (!bio) return false;
VS_BioNew(t) ==
  /\ pc[t] = "vs_bio"
  /\ ext' = [ext EXCEPT ![t] = Append(ext[t], "BIO_new_mem_buf")]
  /\ \E ok \in BOOLEAN :
       IF ok
       THEN LET p == NewObj(t)
            IN  /\ heap' = Alloc(heap, p, "bio")
                /\ bio' = [bio EXCEPT ![t] = p]
                /\ acq' = [acq EXCEPT ![t] = Append(acq[t], p)]
                /\ pc' = [pc EXCEPT ![t] = "vs_pem"]
                /\ UNCHANGED <<result, vsret>>
       ELSE /\ ReturnFromVerify(t, FALSE)
            /\ UNCHANGED <<heap, bio, acq>>
  /\ UNCHANGED <<config, call, log, rules, pubkey, ctx, ret, rel, fault>>
  /\ UNCHANGED codec

\* a plausible slip: a key that does not parse is reported as return false
VS_PemRead_NoThrow(t) ==
  /\ pc[t] = "vs_pem"
  /\ ext' = [ext EXCEPT ![t] = ext[t] \o <<"PEM_read_bio_PUBKEY", "BIO_free">>]
  /\ LET parsed == call[t].key = "pem"
         p == IF parsed THEN NewObj(t) ELSE NULL
         h1 == IF parsed THEN Alloc(heap, p, "pkey") ELSE heap
     IN  /\ fault' = [fault EXCEPT ![t] = Touch(t, heap, bio[t], "bio", "BIO_free")]
         /\ heap' = Freed(h1, bio[t])
         /\ pubkey' = [pubkey EXCEPT ![t] = p]
         /\ acq' = [acq EXCEPT ![t] = IF parsed THEN Append(acq[t], p) ELSE acq[t]]
         /\ rel' = [rel EXCEPT ![t] = Append(rel[t], bio[t])]
         /\ IF parsed
            THEN /\ pc' = [pc EXCEPT ![t] = "vs_ctx"]
                 /\ UNCHANGED <<result, vsret>>
            ELSE ReturnFromVerify(t, FALSE)
  /\ UNCHANGED <<config, call, log, rules, bio, ctx, ret>>
  /\ UNCHANGED codec

\* a plausible slip: BIO_free placed after the null-key check, so that the
\* throw leaves the BIO behind
VS_PemRead_FreeAfterCheck(t) ==
  /\ pc[t] = "vs_pem"
  /\ LET parsed == call[t].key = "pem"
         p == IF parsed THEN NewObj(t) ELSE NULL
         h1 == IF parsed THEN Alloc(heap, p, "pkey") ELSE heap
     IN  /\ pubkey' = [pubkey EXCEPT ![t] = p]
         /\ acq' = [acq EXCEPT ![t] = IF parsed THEN Append(acq[t], p) ELSE acq[t]]
         /\ IF parsed
            THEN /\ ext' = [ext EXCEPT ![t] =
                              ext[t] \o <<"PEM_read_bio_PUBKEY", "BIO_free">>]
                 /\ fault' = [fault EXCEPT ![t] =
                                Touch(t, heap, bio[t], "bio", "BIO_free")]
                 /\ heap' = Freed(h1, bio[t])
                 /\ rel' = [rel EXCEPT ![t] = Append(rel[t], bio[t])]
                 /\ pc' = [pc EXCEPT ![t] = "vs_ctx"]
                 /\ UNCHANGED <<result, vsret>>
            ELSE /\ ext' = [ext EXCEPT ![t] = Append(ext[t], "PEM_read_bio_PUBKEY")]
                 /\ heap' = h1
                 /\ UNCHANGED <<fault, rel>>
                 /\ Throw(t)
  /\ UNCHANGED <<config, call, log, rules, bio, ctx, ret>>
  /\ UNCHANGED codec

\* lines 145-147: pubkey = PEM_read_bio_PUBKEY(bio, ...); BIO_free(bio);
\* CHECK_AND_ASSERT_THROW_MES(pubkey != NULL, ...)
VS_PemRead(t) ==
  /\ pc[t] = "vs_pem"
  /\ ext' = [ext EXCEPT ![t] = ext[t] \o <<"PEM_read_bio_PUBKEY", "BIO_free">>]
  /\ LET parsed == call[t].key = "pem"
         p == IF parsed THEN NewObj(t) ELSE NULL
         h1 == IF parsed THEN Alloc(heap, p, "pkey") ELSE heap
     IN  /\ fault' = [fault EXCEPT ![t] = Touch(t, heap, bio[t], "bio", "BIO_free")]
         /\ heap' = Freed(h1, bio[t])
         /\ pubkey' = [pubkey EXCEPT ![t] = p]
         /\ acq' = [acq EXCEPT ![t] = IF parsed THEN Append(acq[t], p) ELSE acq[t]]
         /\ rel' = [rel EXCEPT ![t] = Append(rel[t], bio[t])]
         /\ IF parsed
            THEN /\ pc' = [pc EXCEPT ![t] = "vs_ctx"]
                 /\ UNCHANGED <<result, vsret>>
            ELSE Throw(t)
  /\ UNCHANGED <<config, call, log, rules, bio, ctx, ret>>
  /\ UNCHANGED codec

\* line 167: EVP_MD_CTX *ctx = EVP_MD_CTX_create(); it may return NULL
VS_CtxCreate(t) ==
  /\ pc[t] = "vs_ctx"
  /\ ext' = [ext EXCEPT ![t] = Append(ext[t], "EVP_MD_CTX_create")]
  /\ \E ok \in BOOLEAN :
       IF ok
       THEN LET p == NewObj(t)
            IN  /\ heap' = Alloc(heap, p, "ctx")
                /\ ctx' = [ctx EXCEPT ![t] = p]
                /\ acq' = [acq EXCEPT ![t] = Append(acq[t], p)]
       ELSE /\ ctx' = [ctx EXCEPT ![t] = NULL]
            /\ UNCHANGED <<heap, acq>>
  /\ pc' = [pc EXCEPT ![t] = "vs_digest"]
  /\ UNCHANGED <<config, call, result, log, rules, bio, pubkey, ret, vsret,
                 rel, fault>>
  /\ UNCHANGED codec

\* lines 168-177: the three EVP_DigestVerify calls, each going on only when
\* the one before returned 1; Final answers 1 (the signature matches),
\* 0 (it does not) or a negative error
VS_DigestVerify(t) ==
  /\ pc[t] = "vs_digest"
  /\ IF ctx[t] = NULL
     THEN /\ ret' = [ret EXCEPT ![t] = 0]
          /\ UNCHANGED <<ext, fault>>
     ELSE \E r_init \in {0, 1}, r_update \in {0, 1}, r_final \in {-1, 0, 1} :
            /\ ret' = [ret EXCEPT ![t] =
                         IF r_init # 1 THEN r_init
                         ELSE IF r_update # 1 THEN r_update
                         ELSE r_final]
            /\ ext' = [ext EXCEPT ![t] = Append(ext[t], "EVP_DigestVerifyInit")]
            /\ fault' = [fault EXCEPT ![t] =
                           Touch(t, heap, ctx[t], "ctx", "EVP_DigestVerifyInit")
                           \cup Touch(t, heap, pubkey[t], "pkey", "EVP_DigestVerifyInit")]
  /\ pc' = [pc EXCEPT ![t] = "vs_cleanup"]
  /\ UNCHANGED <<config, call, result, log, rules, bio, pubkey, ctx, vsret,
                 heap, acq, rel>>
  /\ UNCHANGED codec

\* lines 179-190: EVP_MD_CTX_destroy(ctx); EVP_PKEY_free(pubkey);
\* return true when ret == 1, else print OpenSSL's errors and return false
VS_Cleanup(t) ==
  /\ pc[t] = "vs_cleanup"
  /\ LET h1 == Freed(heap, ctx[t])
     IN  /\ fault' = [fault EXCEPT ![t] =
                        Touch(t, heap, ctx[t], "ctx", "EVP_MD_CTX_destroy")
                        \cup Touch(t, h1, pubkey[t], "pkey", "EVP_PKEY_free")]
         /\ heap' = Freed(h1, pubkey[t])
  /\ rel' = [rel EXCEPT ![t] =
               rel[t] \o (IF ctx[t] # NULL THEN <<ctx[t]>> ELSE <<>>) \o <<pubkey[t]>>]
  /\ ext' = [ext EXCEPT ![t] =
               ext[t] \o <<"EVP_MD_CTX_destroy", "EVP_PKEY_free">>
               \o (IF ret[t] = 1 THEN <<>> ELSE <<"ERR_print_errors_fp">>)]
  /\ ReturnFromVerify(t, ret[t] = 1)
  /\ UNCHANGED <<config, call, log, rules, bio, pubkey, ctx, ret, acq>>
  /\ UNCHANGED codec

\* one step of a call of thread t
CallStep(t) ==
  \/ VS_CheckKey(t)
  \/ VS_BioNew(t)
  \/ VS_PemRead(t)
  \/ VS_CtxCreate(t)
  \/ VS_DigestVerify(t)
  \/ VS_Cleanup(t)
  \/ ValidPost(t)
  \/ Return(t)

\* ---------------------------------------------- the admissibility policy
\* one thread validates records of every kind in every block context and
\* calls verifySignature directly with every kind of key
StartValid ==
  /\ pc[1] = "idle"
  /\ \E r \in PolicyRecords, n \in NetTypes, hf \in HfVersions,
        bl \in BlockTimestamps, lb \in LastBlockTimestamps :
          CallValid(1, r, n, hf, bl, lb)

StartVerify ==
  /\ pc[1] = "idle"
  /\ \E r \in {Rec(U64(1), U64(100), U64(95), U64(1000), SigA)}, k \in KeyKinds :
          CallVerifySignature(1, r, k)

Next == StartValid \/ StartVerify \/ CallStep(1)

Spec == Init /\ [][Next]_vars

\* ------------------------------------------- concurrent verifications
\* every thread calls verifySignature, with every kind of key, and the
\* calls interleave step by step
ConcRecord == Rec(U64(1), U64(100), U64(95), U64(1000), SigA)

ConcStart(t) ==
  /\ pc[t] = "idle"
  /\ \E k \in KeyKinds : CallVerifySignature(t, ConcRecord, k)

ConcNext ==
  \E t \in Threads :
    \/ ConcStart(t)
    \/ VS_CheckKey(t)
    \/ VS_BioNew(t)
    \/ VS_PemRead(t)
    \/ VS_CtxCreate(t)
    \/ VS_DigestVerify(t)
    \/ VS_Cleanup(t)
    \/ Return(t)

ConcInit == Init /\ config = [n \in NetTypes |-> "pem"]

SpecConc == ConcInit /\ [][ConcNext]_vars

\* ------------------------------------------------- hex text (store, _load)
\* text is a sequence of one-character strings
HexDigits ==
  <<"0", "1", "2", "3", "4", "5", "6", "7", "8", "9", "a", "b", "c", "d", "e", "f">>

RECURSIVE HexOfInt(_)
\* operator<<(std::hex, n): lowercase digits, no leading zero
HexOfInt(n) ==
  IF n < 16 THEN <<HexDigits[n + 1]>>
  ELSE HexOfInt(n \div 16) \o <<HexDigits[(n % 16) + 1]>>

RECURSIVE PadLeft(_, _, _)
\* std::setw(w) with std::setfill(c): pads on the left up to w characters
PadLeft(text, w, c) == IF Len(text) >= w THEN text ELSE PadLeft(<<c>> \o text, w, c)

\* a plausible slip: std::setw(2) << std::setfill('0') left out
ByteHex_NoWidth(b) == HexOfInt(b % 256)

\* ss << std::hex << std::setw(2) << std::setfill('0') << (0xff & signature[i])
ByteHex(b) == PadLeft(HexOfInt(b % 256), 2, "0")

RECURSIVE SigHexRange(_, _, _)
\* the hex text of bytes lo..hi, in array order
SigHexRange(sig, lo, hi) ==
  IF lo = hi THEN ByteHex(sig[lo])
  ELSE LET mid == (lo + hi) \div 2
       IN  SigHexRange(sig, lo, mid) \o SigHexRange(sig, mid + 1, hi)

\* the loop of store (lines 91-96): sig_hex, the bytes' texts appended in
\* array order
sig_hex(sig) == SigHexRange(sig, 1, SIG_LEN)

\* the value of a hex digit as strtol reads it, -1 for any other character
DigitVal(c) ==
  CASE c = "0" -> 0 [] c = "1" -> 1 [] c = "2" -> 2 [] c = "3" -> 3
    [] c = "4" -> 4 [] c = "5" -> 5 [] c = "6" -> 6 [] c = "7" -> 7
    [] c = "8" -> 8 [] c = "9" -> 9
    [] c \in {"a", "A"} -> 10 [] c \in {"b", "B"} -> 11 [] c \in {"c", "C"} -> 12
    [] c \in {"d", "D"} -> 13 [] c \in {"e", "E"} -> 14 [] c \in {"f", "F"} -> 15
    [] OTHER -> -1

\* isspace
IsSpace(c) == c \in {" ", "\t", "\n", "\r"}

RECURSIVE SkipSpace(_)
SkipSpace(text) ==
  IF text # <<>> /\ IsSpace(Head(text)) THEN SkipSpace(Tail(text)) ELSE text

RECURSIVE ParseDigits(_, _)
\* the longest run of hex digits at the head of text, read onto v
ParseDigits(text, v) ==
  IF text = <<>> \/ DigitVal(Head(text)) < 0 THEN v
  ELSE ParseDigits(Tail(text), 16 * v + DigitVal(Head(text)))

\* strtol(text, NULL, 16): leading white space, an optional sign, an optional
\* 0x, then hex digits as far as they go; 0 when there is no digit
Strtol16(text) ==
  LET s1 == SkipSpace(text)
      signed == s1 # <<>> /\ Head(s1) \in {"-", "+"}
      neg == s1 # <<>> /\ Head(s1) = "-"
      s2 == IF signed THEN Tail(s1) ELSE s1
      s3 == IF /\ Len(s2) >= 3 /\ s2[1] = "0" /\ s2[2] \in {"x", "X"}
               /\ DigitVal(s2[3]) >= 0
            THEN SubSeq(s2, 3, Len(s2)) ELSE s2
      v == ParseDigits(s3, 0)
  IN  IF neg THEN 0 - v ELSE v

\* std::string::substr(pos, n): at most n characters from 0-based pos
substr(text, pos, n) ==
  SubSeq(text, pos + 1, IF pos + n > Len(text) THEN Len(text) ELSE pos + n)

\* one pass of the loop of _load (lines 79-80) at 0-based offset i:
\* (char) strtol(in.signature.substr(i, 2).c_str(), NULL, 16)
DecodeAt(text, i) == Strtol16(substr(text, i, 2)) % 256

\* the loop of _load (lines 78-81), i = 0, 2, 4, ... while i < length: pass
\* i writes signature[i >> 1] and nothing else, so the buffer ends with the
\* decoded value wherever a pass reached and its old byte elsewhere; the
\* passes with i >> 1 > 63 write past the buffer's end (oob)
LoadSignature(sig, text) ==
  [signature |->
     [k \in SigIdx |->
        IF 2 * (k - 1) < Len(text) THEN DecodeAt(text, 2 * (k - 1)) ELSE sig[k]],
   oob |->
     {<<k, DecodeAt(text, 2 * k)>> :
        k \in {x \in SIG_LEN..(Len(text) \div 2 + 1) : 2 * x < Len(text)}}]

\* pr_serialized::_load: it succeeds when the storage holds the section
pr_serialized_load(w) == w.present

\* pricing_record::_load into the instance `target`
load(target, w) ==
  IF pr_serialized_load(w)
  THEN LET d == LoadSignature(target.signature, w.signature)
       IN  [ret |-> TRUE,
            pr |-> [pr_version |-> w.pr_version, spot |-> w.spot,
                    moving_average |-> w.moving_average,
                    timestamp |-> w.timestamp, signature |-> d.signature],
            oob |-> d.oob]
  ELSE [ret |-> FALSE, pr |-> target, oob |-> {}]

\* pricing_record::store: the section it writes
store(r) ==
  [present |-> TRUE, pr_version |-> r.pr_version, spot |-> r.spot,
   moving_average |-> r.moving_average, timestamp |-> r.timestamp,
   signature |-> sig_hex(r.signature)]

\* --------------------------------------------------------- the blob codec
\* sizeof(oracle::pricing_record): four uint64_t and the signature buffer
SizeofPricingRecord == 4 * U64_BYTES + SIG_LEN

\* the object's bytes, members in declaration order
ObjBytes(r) ==
  r.pr_version \o r.spot \o r.moving_average \o r.timestamp \o r.signature

\* the object whose bytes are b
FromBytes(b) ==
  [pr_version |-> SubSeq(b, 1, U64_BYTES),
   spot |-> SubSeq(b, U64_BYTES + 1, 2 * U64_BYTES),
   moving_average |-> SubSeq(b, 2 * U64_BYTES + 1, 3 * U64_BYTES),
   timestamp |-> SubSeq(b, 3 * U64_BYTES + 1, 4 * U64_BYTES),
   signature |-> SubSeq(b, 4 * U64_BYTES + 1, 4 * U64_BYTES + SIG_LEN)]

\* binary_archive<false>::remaining_bytes: 0 once the archive is not good
remaining_bytes(a) == IF a.good THEN Len(a.bytes) ELSE 0

\* binary_archive<false>::serialize_blob(&obj, len): takes what is there, up
\* to len bytes, copies it over the head of the object, and is good only if
\* it got them all
serialize_blob(a, r, len) ==
  LET actual == IF Len(a.bytes) < len THEN Len(a.bytes) ELSE len
      image == ObjBytes(r)
  IN  [ar |-> [bytes |-> SubSeq(a.bytes, actual + 1, Len(a.bytes)),
               good |-> a.good /\ actual = len],
       pr |-> FromBytes(SubSeq(a.bytes, 1, actual)
                        \o SubSeq(image, actual + 1, Len(image)))]

\* a plausible slip: the sanity check on remaining_bytes left out
do_serialize_read_NoCheck(a, r) ==
  LET d == serialize_blob(a, r, SizeofPricingRecord)
  IN  [ret |-> d.ar.good, ar |-> d.ar, pr |-> d.pr]

\* do_serialize(Archive<false>&, oracle::pricing_record&, uint8_t)
do_serialize_read(a, r) ==
  IF remaining_bytes(a) < SizeofPricingRecord
  THEN [ret |-> FALSE, ar |-> a, pr |-> r]
  ELSE LET d == serialize_blob(a, r, SizeofPricingRecord)
       IN  [ret |-> d.ar.good, ar |-> d.ar, pr |-> d.pr]

\* do_serialize(Archive<true>&, oracle::pricing_record&, uint8_t) on a fresh
\* archive: the bytes it leaves there
do_serialize_write(r) == ObjBytes(r)

\* ------------------------------------------------------ codecs: actions
\* the records the codecs are run on
CodecRecords ==
  { pricing_record_default,
    Rec(U64(1), U64(100), U64(95), U64(1000), SigA),
    Rec(U64Max, U64Zero, U64(95), U64(1131), SigFF),
    Rec(U64Zero, U64Zero, U64Zero, U64Zero, SigLast) }

\* the records whose stored section arrives at _load
WireRecords == CodecRecords

\* the records whose blob arrives at the reading do_serialize
BlobRecords ==
  { Rec(U64(1), U64(100), U64(95), U64(1000), SigA),
    Rec(U64Max, U64Zero, U64(95), U64(1131), SigFF) }

\* sec with its signature text replaced
WithText(sec, text) == [sec EXCEPT !.signature = text]

Forms ==
  {"stored", "absent", "odd", "short", "tiny", "none", "long", "nonhex",
   "minus", "space"}

\* what arrives in place of the section sec that store() wrote: the section
\* itself, no section, or the section with its signature text cut,
\* lengthened or holding a character that is no hex digit
WireInput(sec, form) ==
  LET text == sec.signature
      n == Len(text)
  IN  CASE form = "stored" -> sec
        [] form = "absent" -> [present |-> FALSE]
        [] form = "odd"    -> WithText(sec, SubSeq(text, 1, n - 1))
        [] form = "short"  -> WithText(sec, SubSeq(text, 1, n - 2))
        [] form = "tiny"   -> WithText(sec, SubSeq(text, 1, 2))
        [] form = "none"   -> WithText(sec, <<>>)
        [] form = "long"   -> WithText(sec, text \o <<"a", "b", "7">>)
        [] form = "nonhex" -> WithText(sec, [text EXCEPT ![2] = "g"])
        [] form = "minus"  -> WithText(sec, [text EXCEPT ![1] = "-"])
        [] form = "space"  -> WithText(sec, [text EXCEPT ![3] = " "])

\* the archives a read can be handed: what the writer left, cut at several
\* lengths or followed by more bytes, in a good or a failed archive
ArchiveInputs(b) ==
  {[bytes |-> SubSeq(b, 1, n), good |-> TRUE] :
     n \in {0, 40, SizeofPricingRecord - 1, SizeofPricingRecord}}
  \cup {[bytes |-> b, good |-> FALSE],
        [bytes |-> b \o <<1, 2, 3, 4>>, good |-> TRUE]}

\* operator=(orig): the instance takes the value of another record
Assign(r) ==
  /\ pr' = r
  /\ oob' = {}
  /\ ndec' = 0
  /\ last' = [op |-> "assign"]
  /\ UNCHANGED conc

\* store(dest, hparent) on the instance: last.out is the section written
Store ==
  /\ last' = [op |-> "store", ret |-> TRUE, out |-> store(pr)]
  /\ oob' = {}
  /\ UNCHANGED <<pr, ndec>>
  /\ UNCHANGED conc

\* _load(src, hparent) on the instance; src holds what arrived of the section
\* that store() wrote for the record from
Load(from, form) ==
  /\ ndec < MaxDecodes
  /\ LET w == WireInput(store(from), form)
         d == load(pr, w)
     IN  /\ pr' = d.pr
         /\ oob' = d.oob
         /\ last' = [op |-> "_load", form |-> form, input |-> w,
                     from |-> from, before |-> pr, ret |-> d.ret]
  /\ ndec' = ndec + 1
  /\ UNCHANGED conc

\* the writing do_serialize on a fresh archive: last.out is what it wrote
WriteBlob ==
  /\ last' = [op |-> "do_serialize_write", ret |-> TRUE,
              out |-> do_serialize_write(pr)]
  /\ oob' = {}
  /\ UNCHANGED <<pr, ndec>>
  /\ UNCHANGED conc

\* the reading do_serialize on the archive a
ReadBlob(a) ==
  /\ ndec < MaxDecodes
  /\ LET d == do_serialize_read(a, pr)
     IN  /\ pr' = d.pr
         /\ last' = [op |-> "do_serialize_read", input |-> a, before |-> pr,
                     ret |-> d.ret, ar |-> d.ar]
  /\ oob' = {}
  /\ ndec' = ndec + 1
  /\ UNCHANGED conc

CodecNext ==
  \/ \E r \in CodecRecords : Assign(r)
  \/ Store
  \/ \E from \in WireRecords, form \in Forms : Load(from, form)
  \/ WriteBlob
  \/ \E from \in BlobRecords :
       \E a \in ArchiveInputs(do_serialize_write(from)) : ReadBlob(a)

SpecCodec == ConcInit /\ [][CodecNext]_vars

\* ------------------------------------------------ vocabulary of the claims
\* the record is the all-zero sentinel: four zero integers, 64 zero bytes
IsEmptyRecord(r) ==
  /\ \A i \in 1..U64_BYTES :
       r.pr_version[i] = 0 /\ r.spot[i] = 0 /\ r.moving_average[i] = 0
       /\ r.timestamp[i] = 0
  /\ \A i \in 1..SIG_LEN : r.signature[i] = 0

\* the diagnostic reason a log carries: that of its last line
ReasonOfLog(l) ==
  IF l = <<>> THEN "none"
  ELSE LET m == l[Len(l)].msg
       IN  CASE m = "Pricing record has missing rates." -> "MissingRates"
             [] m = "Invalid pricing record signature." -> "InvalidSignature"
             [] m = "Pricing record timestamp is too far in the future."
                  -> "TimestampTooFarInFuture"
             [] m = "Pricing record timestamp is too old." -> "TimestampNotAdvancing"
             [] OTHER -> "unknown"

\* ts <= bl + MAX_FUTURE_SKEW over the integers (no wrap-around): the
\* comparison is made on nine bytes, the ninth being the carry of the sum
WithinFutureSkew(ts, bl) ==
  ~LtFrom(WideAdd(bl, U64(PRICING_RECORD_VALID_TIME_DIFF_FROM_BLOCK)),
          ts \o <<0>>, U64_BYTES + 1)

\* thread t has finished a call of valid()
ValidDone(t) == pc[t] = "done" /\ call[t].kind = "valid"

\* valid() was called at or above the activation version
Activated(t) == call[t].hf_version >= HF_VERSION_SLIPPAGE_YIELD

\* the rule that fails first, in the order activation, missing rates,
\* signature, future skew, monotonicity; "none" when no rule fails
FirstFailingRule(t) ==
  LET c == call[t]
      r == c.rec
  IN  IF ~Activated(t) /\ ~IsEmptyRecord(r) THEN "UnexpectedRecordBeforeActivation"
      ELSE IF IsEmptyRecord(r) THEN "none"
      ELSE IF r.spot = U64Zero \/ r.moving_average = U64Zero THEN "MissingRates"
      ELSE IF ~vsret[t] THEN "InvalidSignature"
      ELSE IF ~WithinFutureSkew(r.timestamp, c.bl_timestamp)
      THEN "TimestampTooFarInFuture"
      ELSE IF ~U64Lt(c.last_bl_timestamp, r.timestamp) THEN "TimestampNotAdvancing"
      ELSE "none"

\* ----------------------------------------------------------------- claims
\* C1: below the activation version valid() returns true exactly when the
\* record is empty (four zero integers and 64 zero signature bytes), whatever
\* the network type and the two block timestamps are.
C1_BelowActivationOnlyEmpty ==
  \A t \in Threads :
    (ValidDone(t) /\ ~Activated(t))
      => /\ result[t] \in {"true", "false"}
         /\ (result[t] = "true") <=> IsEmptyRecord(call[t].rec)

\* C1 witness: below activation, a record whose integers are all zero but
\* whose last signature byte is set has been rejected.
C1_Witness ==
  \E t \in Threads :
    /\ ValidDone(t) /\ ~Activated(t)
    /\ call[t].rec = Rec(U64Zero, U64Zero, U64Zero, U64Zero, SigLast)
    /\ result[t] = "false"

\* C2: at or above activation a non-empty record with spot == 0 or
\* moving_average == 0 is rejected with reason MissingRates, and neither the
\* key lookup nor the signature verifier has been invoked.
C2_MissingRatesBeforeSignature ==
  \A t \in Threads :
    (/\ ValidDone(t) /\ Activated(t)
     /\ ~IsEmptyRecord(call[t].rec)
     /\ (call[t].rec.spot = U64Zero \/ call[t].rec.moving_average = U64Zero))
      => /\ result[t] = "false"
         /\ ReasonOfLog(log[t]) = "MissingRates"
         /\ Len(log[t]) = 1
         /\ ext[t] = <<>>
         /\ call[t].key = "unresolved"

\* C2 witness: a record with spot == 0, a nonzero moving average and a
\* nonzero signature has been rejected at the activation version.
C2_Witness ==
  \E t \in Threads :
    /\ ValidDone(t) /\ Activated(t)
    /\ call[t].rec.spot = U64Zero
    /\ call[t].rec.moving_average # U64Zero
    /\ call[t].rec.signature = SigA
    /\ result[t] = "false"

\* C3 (as claimed): for a non-empty record with both rates, at or above
\* activation, whose signature verified, valid() returns true exactly when
\* previousBlockTimestamp < timestamp <= blockTimestamp + MAX_FUTURE_SKEW,
\* for all 64-bit values of the three timestamps.
C3_TimestampWindow ==
  \A t \in Threads :
    (/\ ValidDone(t) /\ Activated(t)
     /\ ~IsEmptyRecord(call[t].rec)
     /\ call[t].rec.spot # U64Zero /\ call[t].rec.moving_average # U64Zero
     /\ vsret[t])
      => ((result[t] = "true") <=>
            /\ U64Lt(call[t].last_bl_timestamp, call[t].rec.timestamp)
            /\ WithinFutureSkew(call[t].rec.timestamp, call[t].bl_timestamp))

\* C4: an empty record is accepted in every context, and the acceptance is
\* reached with no key resolved and no external function invoked.
C4_EmptyAlwaysAccepted ==
  \A t \in Threads :
    (ValidDone(t) /\ IsEmptyRecord(call[t].rec))
      => /\ result[t] = "true"
         /\ ext[t] = <<>>
         /\ call[t].key = "unresolved"
         /\ log[t] = <<>>

\* C4 witness: an empty record has been accepted at or above activation on a
\* network whose configured key is empty (verifySignature would have thrown).
C4_Witness ==
  \E t \in Threads :
    /\ ValidDone(t) /\ Activated(t)
    /\ IsEmptyRecord(call[t].rec)
    /\ config[call[t].nettype] = "empty"
    /\ result[t] = "true"

\* C5 (as claimed): every rejection by valid() carries a diagnostic reason,
\* and it is the reason of the first failing rule in the order activation,
\* missing rates, signature, future skew, monotonicity.
C5_RejectionCarriesFirstFailingReason ==
  \A t \in Threads :
    (ValidDone(t) /\ result[t] = "false")
      => /\ ReasonOfLog(log[t]) # "none"
         /\ ReasonOfLog(log[t]) = FirstFailingRule(t)

\* C6 (as claimed): an exception is raised only when the public key is
\* empty; a non-empty key that is no PEM public key gives false, with reason
\* InvalidSignature from valid().
C6_ThrowsOnlyOnEmptyKey ==
  \A t \in Threads :
    pc[t] = "done"
      => /\ (result[t] = "exception" => call[t].key = "empty")
         /\ (call[t].key = "garbage"
               => /\ result[t] = "false"
                  /\ (call[t].kind = "valid"
                        => ReasonOfLog(log[t]) = "InvalidSignature"))

\* C6 (amended): an exception is raised only when the public key is empty or
\* is no PEM public key.  An empty key always throws.  A non-empty key that
\* does not parse throws as well, logging no reason, once the memory BIO was
\* allocated; only when the BIO could not be allocated is the outcome false
\* (with reason InvalidSignature from valid()).
C6_ThrowsOnEmptyOrUnparsableKey ==
  \A t \in Threads :
    pc[t] = "done"
      => /\ (result[t] = "exception" => call[t].key \in {"empty", "garbage"})
         /\ (call[t].key = "empty" => result[t] = "exception")
         /\ (call[t].key = "garbage"
               => IF bio[t] # NULL
                  THEN result[t] = "exception" /\ log[t] = <<>>
                  ELSE /\ result[t] = "false"
                       /\ (call[t].kind = "valid"
                             => ReasonOfLog(log[t]) = "InvalidSignature"))

\* C6 witness: valid() has ended in an exception on a non-empty key that is
\* no PEM public key.
C6_Witness ==
  \E t \in Threads :
    /\ ValidDone(t)
    /\ call[t].key = "garbage"
    /\ result[t] = "exception"

RECURSIVE Count(_, _)
\* how often p occurs in the sequence q
Count(q, p) ==
  IF q = <<>> THEN 0
  ELSE (IF Head(q) = p THEN 1 ELSE 0) + Count(Tail(q), p)

\* 1 when the call of thread t holds cell p (acquired, not yet released)
Held(t, p) == Count(acq[t], p) - Count(rel[t], p)

\* every object some call has acquired or some pointer names
Objects ==
  {o.id : o \in heap}
  \cup UNION {{acq[t][i] : i \in 1..Len(acq[t])} : t \in Threads}
  \cup UNION {{rel[t][i] : i \in 1..Len(rel[t])} : t \in Threads}

LowerHexVal(c) ==
  IF \E k \in 1..16 : HexDigits[k] = c
  THEN (CHOOSE k \in 1..16 : HexDigits[k] = c) - 1
  ELSE -1

\* the text is 128 hex digits: it decodes to exactly 64 bytes
WellFormedSigText(text) ==
  /\ Len(text) = 2 * SIG_LEN
  /\ \A i \in 1..Len(text) : DigitVal(text[i]) >= 0

\* C7 (as claimed): when the wire signature text does not decode to exactly
\* 64 bytes, _load returns failure, leaves the record as it was, and writes
\* no byte outside signature[0..63].
C7_MalformedSignatureRejected ==
  (/\ last.op = "_load"
   /\ last.input.present
   /\ ~WellFormedSigText(last.input.signature))
    => /\ last.ret = FALSE
       /\ pr = last.before
       /\ oob = {}

\* C8: store() writes the four integers unchanged and a signature text of
\* exactly 128 lowercase hex characters, two per byte in array order; and
\* _load of the section store() wrote for a record, into any target,
\* succeeds and leaves the target equal to that record, with no byte written
\* outside the buffer.
C8_WireRoundTrip ==
  /\ last.op = "store"
       => /\ last.ret
          /\ last.out.present
          /\ last.out.pr_version = pr.pr_version
          /\ last.out.spot = pr.spot
          /\ last.out.moving_average = pr.moving_average
          /\ last.out.timestamp = pr.timestamp
          /\ Len(last.out.signature) = 2 * SIG_LEN
          /\ \A i \in 1..SIG_LEN :
               LET hi == LowerHexVal(last.out.signature[2 * i - 1])
                   lo == LowerHexVal(last.out.signature[2 * i])
               IN  hi >= 0 /\ lo >= 0 /\ 16 * hi + lo = pr.signature[i]
  /\ (last.op = "_load" /\ last.form = "stored")
       => /\ last.ret
          /\ pr = last.from
          /\ oob = {}

\* C8 witness: the section stored for a record whose signature has bytes
\* below 0x10 and from 0x80 up has been loaded into a target that held
\* another record with an all-0xff signature.
C8_Witness ==
  /\ last.op = "_load" /\ last.form = "stored"
  /\ last.from.signature = SigA
  /\ last.before.signature = SigFF
  /\ last.before.timestamp # last.from.timestamp
  /\ pr = last.from

\* C9: the reading do_serialize on an archive holding fewer bytes than
\* sizeof(pricing_record) fails, leaves the target record as it was and
\* consumes nothing from the archive.
C9_TruncatedBlobRejected ==
  (last.op = "do_serialize_read" /\ Len(last.input.bytes) < SizeofPricingRecord)
    => /\ last.ret = FALSE
       /\ pr = last.before
       /\ last.ar = last.input

\* C9 witness: a read from a good archive one byte short of the record size
\* has failed on a populated target.
C9_Witness ==
  /\ last.op = "do_serialize_read"
  /\ last.input.good
  /\ Len(last.input.bytes) = SizeofPricingRecord - 1
  /\ last.ret = FALSE
  /\ last.before.signature = SigFF
  /\ pr = last.before

\* ------------------------------------------------------------ companions
\* blockTimestamp + MAX_FUTURE_SKEW fits in 64 bits
SumFits(bl) ==
  WideAdd(bl, U64(PRICING_RECORD_VALID_TIME_DIFF_FROM_BLOCK))[U64_BYTES + 1] = 0

\* Companion of C3: the window of C3 is what valid() decides whenever
\* blockTimestamp + MAX_FUTURE_SKEW does not wrap around 2^64.
C3_WindowWithoutWrap ==
  \A t \in Threads :
    (/\ ValidDone(t) /\ Activated(t)
     /\ ~IsEmptyRecord(call[t].rec)
     /\ call[t].rec.spot # U64Zero /\ call[t].rec.moving_average # U64Zero
     /\ vsret[t]
     /\ SumFits(call[t].bl_timestamp))
      => ((result[t] = "true") <=>
            /\ U64Lt(call[t].last_bl_timestamp, call[t].rec.timestamp)
            /\ WithinFutureSkew(call[t].rec.timestamp, call[t].bl_timestamp))

\* Companion of C5: a rejection below activation logs nothing; every other
\* rejection carries the reason of the first failing rule whenever
\* blockTimestamp + MAX_FUTURE_SKEW does not wrap around 2^64.
C5_ReasonsExceptActivation ==
  \A t \in Threads :
    (ValidDone(t) /\ result[t] = "false")
      => IF ~Activated(t)
         THEN log[t] = <<>>
         ELSE SumFits(call[t].bl_timestamp)
                => ReasonOfLog(log[t]) = FirstFailingRule(t)

====
